---- MODULE Spec2Model ----
(***************************************************************************)
(* Mesh / instance buffer generation of rusty-flame.                       *)
(*                                                                         *)
(*   src/src/mesh.rs                        build_mesh, build_quad         *)
(*   src/src/rendy_render/mesh_pipeline.rs  build_mesh, Pipeline           *)
(*                                                                         *)
(* f64 values are fixed-point integers in units of 1/ONE; an f32 value is  *)
(* an f64 value rounded to the coarser grid of step F32Step.  A 2D affine  *)
(* transform is the 9-tuple of its 3x3 homogeneous matrix in column-major  *)
(* order, as nalgebra stores it: s[k] of the code is m[k+1] here.          *)
(***************************************************************************)
EXTENDS Integers, Sequences, FiniteSets, TLC

\* ------------------------------------------------------------------------
\* Bounds of the model
\* ------------------------------------------------------------------------
MaxLevel == 2

\* ------------------------------------------------------------------------
\* Number representation
\* ------------------------------------------------------------------------
ONE == 8
F32Step == 2

Min(a, b) == IF a <= b THEN a ELSE b

\* round-to-nearest quotient, b > 0
RoundDiv(a, b) == (2 * a + b) \div (2 * b)

\* f64 product and quotient of two fixed-point values
Mul(a, b) == RoundDiv(a * b, ONE)
Div(a, b) == RoundDiv(a * ONE, b)

\* `x as f32`
AsF32(x) == RoundDiv(x, F32Step) * F32Step

\* `n as u32` of a usize: value-preserving below 2^32; the buffers of the
\* model hold at most a few hundred elements
AsU32(n) == n

\* ------------------------------------------------------------------------
\* nalgebra: 3x3 homogeneous matrices, column-major
\* ------------------------------------------------------------------------
Identity == <<ONE, 0, 0, 0, ONE, 0, 0, 0, ONE>>

\* entry (row i, column j), 0-based, of column-major m
At(m, i, j) == m[3 * j + i + 1]

\* a * b
MatMul(a, b) ==
    [k \in 1..9 |->
        LET i == (k - 1) % 3
            j == (k - 1) \div 3
        IN  Mul(At(a, i, 0), At(b, 0, j)) + Mul(At(a, i, 1), At(b, 1, j))
              + Mul(At(a, i, 2), At(b, 2, j))]

\* mat * point, for an affine mat
MatPoint(m, p) ==
    << Mul(m[1], p[1]) + Mul(m[4], p[2]) + m[7],
       Mul(m[2], p[1]) + Mul(m[5], p[2]) + m[8] >>

\* ------------------------------------------------------------------------
\* geometry::Rect
\* ------------------------------------------------------------------------
Rect(minx, miny, maxx, maxy) == [min |-> <<minx, miny>>, max |-> <<maxx, maxy>>]

corners(r) ==
    << <<r.min[1], r.min[2]>>, <<r.max[1], r.min[2]>>,
       <<r.max[1], r.max[2]>>, <<r.min[1], r.max[2]>> >>

\* geometry::letter_box(container, content)
letter_box(container, content) ==
    LET cw == container.max[1] - container.min[1]
        ch == container.max[2] - container.min[2]
        w  == content.max[1] - content.min[1]
        h  == content.max[2] - content.min[2]
        s  == Min(Div(cw, w), Div(ch, h))
        ccx == RoundDiv(container.min[1] + container.max[1], 2)
        ccy == RoundDiv(container.min[2] + container.max[2], 2)
        cx == RoundDiv(content.min[1] + content.max[1], 2)
        cy == RoundDiv(content.min[2] + content.max[2], 2)
    IN  <<s, 0, 0, 0, s, 0, ccx - Mul(s, cx), ccy - Mul(s, cy), ONE>>

NdcRect == Rect(-ONE, -ONE, ONE, ONE)
UnitRect == Rect(0, 0, ONE, ONE)

\* ------------------------------------------------------------------------
\* The recursive geometry source (flame): structures it can produce
\* ------------------------------------------------------------------------
T1 == <<4, 0, 0, 0, 4, 0, -4, -4, ONE>>
T2 == <<0, 4, 0, -4, 0, 0, 4, 0, ONE>>
T3 == <<4, 0, 0, 2, 4, 0, 1, 4, ONE>>

Structures ==
    { [xf |-> <<T1, T2>>,     bounds |-> NdcRect],
      [xf |-> <<T1, T2, T3>>, bounds |-> Rect(-2 * ONE, -ONE, 2 * ONE, ONE)],
      [xf |-> <<T2, T3>>,     bounds |-> Rect(1, 0, ONE, 2 * ONE + 1)] }

Cursors == { <<0, 0>>, <<4, -ONE>> }
Origins == { <<c[1] + ONE, c[2] + ONE>> : c \in Cursors }
Levels == 0..MaxLevel

VARIABLES
    flame,      \* the source: origin -> structure (a pure function of the origin)
    cfg,        \* the configuration split_levels() returns
    scene,      \* cursor of the last mesh.rs build_mesh call (<<>> before)
    verts,      \* Vec<Vertex> returned by the last mesh.rs build_mesh
    instances,  \* Vec<Instance> returned by the last mesh.rs build_mesh
    locals,     \* locals of the last mesh.rs build_mesh: positions, uv_verts, m
    first,      \* cursor -> the first result returned for it (<<>> before)
    repeat,     \* 0: the last build_mesh input was new; 1: it repeated the call
                \* before it; 2: it repeated an earlier call, others in between
    quad,       \* Vec<Vertex> returned by build_quad (<<>> before)
    pipeline,   \* <<the rendy Pipeline>>, <<>> before build
    aux,        \* aux of the call that last assigned the Pipeline
    prev_aux,   \* aux of the call that assigned the Pipeline before that
    drawn       \* ranges of the draw recorded in this frame's encoder (<<>> if none)

vars == <<flame, cfg, scene, verts, instances, locals, first, repeat, quad,
          pipeline, aux, prev_aux, drawn>>

\* ------------------------------------------------------------------------
\* Consumed interfaces
\* ------------------------------------------------------------------------
split_levels == [mesh |-> cfg.mesh, instance |-> cfg.instance]
\* crate-level constants read by the rendy adapter (scaled to the model)
BASE_LEVELS == 1
INSTANCE_LEVELS == 2

\* get_state(origin, scale).get_state(): the root BoundedState
get_state(origin, scale) ==
    [mat |-> Identity, bounds |-> flame[origin].bounds, xf |-> flame[origin].xf]

get_bounds(state) == state.bounds

RECURSIVE FlattenTo(_, _)
FlattenTo(ss, n) == IF n = 0 THEN <<>> ELSE FlattenTo(ss, n - 1) \o ss[n]
Flatten(ss) == FlattenTo(ss, Len(ss))

\* state.process_levels(level, visit): the states visit is invoked on, in order
RECURSIVE process_levels(_, _)
process_levels(state, level) ==
    IF level = 0 THEN <<state>>
    ELSE Flatten([i \in 1..Len(state.xf) |->
            process_levels([state EXCEPT !.mat = MatMul(state.mat, state.xf[i])],
                           level - 1)])

\* ------------------------------------------------------------------------
\* mesh.rs
\* ------------------------------------------------------------------------
root_state(cursor) == get_state(<<cursor[1] + ONE, cursor[2] + ONE>>, <<2 * ONE, 2 * ONE>>)

root_mat(bounds) == letter_box(NdcRect, bounds)

\* variant: second triangle wound the other way
tri_verts_flipped(c) == <<c[1], c[2], c[3], c[1], c[4], c[3]>>

tri_verts(c) == <<c[1], c[2], c[3], c[1], c[3], c[4]>>

uv_corners == corners(UnitRect)

\* variant: the UV template lacks its last entry
uv_tri_verts_short ==
    LET t == <<uv_corners[1], uv_corners[2], uv_corners[3], uv_corners[1], uv_corners[3]>>
    IN  [k \in 1..5 |-> <<AsF32(t[k][1]), AsF32(t[k][2])>>]

uv_tri_verts ==
    LET t == <<uv_corners[1], uv_corners[2], uv_corners[3],
               uv_corners[1], uv_corners[3], uv_corners[4]>>
    IN  [k \in 1..6 |-> <<AsF32(t[k][1]), AsF32(t[k][2])>>]

\* variant: the closure pushes the template points without state.mat
mesh_visit_untransformed(state, tv) ==
    [k \in 1..Len(tv) |-> <<AsF32(tv[k][1]), AsF32(tv[k][2])>>]

\* one invocation of the mesh-pass closure: the positions it pushes
mesh_visit(state, tv) ==
    [k \in 1..Len(tv) |->
        LET t2 == MatPoint(state.mat, tv[k]) IN <<AsF32(t2[1]), AsF32(t2[2])>>]

\* positions.into_iter().zip(uv_verts.into_iter()).map(..).collect()
zip_verts(positions, uv_verts) ==
    [k \in 1..Min(Len(positions), Len(uv_verts)) |->
        [position |-> positions[k], texture_coordinate |-> uv_verts[k]]]

\* variant: state.mat * root_mat
instance_mat_swapped(rm, state) == MatMul(state.mat, rm)

\* m = (root_mat * state.mat).to_homogeneous()
instance_mat(rm, state) == MatMul(rm, state.mat)

\* variant: the slice read as if it were row-major
pack_instance_row_major(s) ==
    [row0 |-> <<AsF32(s[1]), AsF32(s[2]), AsF32(s[3]), 0>>,
     row1 |-> <<AsF32(s[4]), AsF32(s[5]), AsF32(s[6]), 0>>]

\* Instance { row0: [s0, s3, s6, 0], row1: [s1, s4, s7, 0] }
pack_instance(s) ==
    [row0 |-> <<AsF32(s[1]), AsF32(s[4]), AsF32(s[7]), 0>>,
     row1 |-> <<AsF32(s[2]), AsF32(s[5]), AsF32(s[8]), 0>>]

\* variant: the instance vector outlives the call
instances_stale == instances

\* let mut instances: Vec<Instance> = vec![]
instances_init == <<>>

build_mesh(cursor) ==
    LET state  == root_state(cursor)
        bounds == get_bounds(state)
        rm     == root_mat(bounds)
        tv     == tri_verts(corners(bounds))
        split  == split_levels
        mesh_nodes == process_levels(state, split.mesh)
        positions  == Flatten([n \in 1..Len(mesh_nodes) |-> mesh_visit(mesh_nodes[n], tv)])
        uv_verts   == Flatten([n \in 1..Len(mesh_nodes) |-> uv_tri_verts])
        inst_nodes == process_levels(state, split.instance)
        m          == [n \in 1..Len(inst_nodes) |-> instance_mat(rm, inst_nodes[n])]
    IN  [verts     |-> zip_verts(positions, uv_verts),
         instances |-> instances_init \o [n \in 1..Len(m) |-> pack_instance(m[n])],
         positions |-> positions,
         uv_verts  |-> uv_verts,
         m         |-> m]

\* variant: second triangle starts at corner 1
quad_indices_shifted == <<0, 1, 2, 1, 2, 3>>

quad_indices == <<0, 1, 2, 0, 2, 3>>

build_quad ==
    LET c  == corners(NdcRect)
        uv == corners(UnitRect)
    IN  [k \in 1..Len(quad_indices) |->
            LET index == quad_indices[k] + 1
            IN  [position           |-> <<AsF32(c[index][1]), AsF32(c[index][2])>>,
                 texture_coordinate |-> <<AsF32(uv[index][1]), AsF32(uv[index][2])>>]]

\* ------------------------------------------------------------------------
\* rendy_render/mesh_pipeline.rs
\* ------------------------------------------------------------------------
TexCoordStride == 8
SizeOfF32 == 4
FloatsPerInstance == 8

\* one invocation of the vertex-pass closure
rendy_mesh_visit(state, tv) ==
    [k \in 1..Len(tv) |->
        LET t2 == MatPoint(state.mat, tv[k]) IN <<AsF32(t2[1]), AsF32(t2[2])>>]

\* variant: the linear part transposed
rendy_pack_transposed(s) ==
    <<AsF32(s[1]), AsF32(s[2]), AsF32(s[7]), 0,
      AsF32(s[4]), AsF32(s[5]), AsF32(s[8]), 0>>

\* one invocation of the instance-pass closure: the eight floats it appends
rendy_pack(s) ==
    <<AsF32(s[1]), AsF32(s[4]), AsF32(s[7]), 0,
      AsF32(s[2]), AsF32(s[5]), AsF32(s[8]), 0>>

\* variant: the float count taken as the instance count
instance_count_undivided(floats) == AsU32(Len(floats))

\* instances.len() as u32 / 8
instance_count_of(floats) == AsU32(Len(floats)) \div FloatsPerInstance

rendy_build_mesh(a) ==
    LET state  == root_state(a)
        bounds == get_bounds(state)
        rm     == root_mat(bounds)
        tv     == tri_verts(corners(bounds))
        mesh_nodes == process_levels(state, BASE_LEVELS)
        vs         == Flatten([n \in 1..Len(mesh_nodes) |-> rendy_mesh_visit(mesh_nodes[n], tv)])
        vertex_count == AsU32(Len(vs))
        inst_nodes == process_levels(state, INSTANCE_LEVELS)
        fl         == Flatten([n \in 1..Len(inst_nodes) |->
                          rendy_pack(MatMul(rm, inst_nodes[n].mat))])
    IN  [vertex_buffer   |-> [size |-> TexCoordStride * vertex_count, data |-> vs],
         vertex_count    |-> vertex_count,
         instance_buffer |-> [size |-> Len(fl) * SizeOfF32, data |-> fl],
         instance_count  |-> instance_count_of(fl)]

\* ------------------------------------------------------------------------
\* State machine
\* ------------------------------------------------------------------------
Init ==
    /\ flame \in [Origins -> Structures]
    /\ cfg \in [mesh : Levels, instance : Levels]
    /\ scene = <<>>
    /\ verts = <<>>
    /\ instances = <<>>
    /\ locals = [verts |-> <<>>, instances |-> <<>>, positions |-> <<>>,
                 uv_verts |-> <<>>, m |-> <<>>]
    /\ first = [c \in Cursors |-> <<>>]
    /\ repeat = 0
    /\ quad = <<>>
    /\ pipeline = <<>>
    /\ aux = <<>>
    /\ prev_aux = <<>>
    /\ drawn = <<>>

\* mesh.rs build_mesh(scene) with scene.cursor = c
BuildMesh(c) ==
    /\ scene' = c
    /\ locals' = build_mesh(c)
    /\ verts' = locals'.verts
    /\ instances' = locals'.instances
    /\ first' = IF first[c] = <<>>
                THEN [first EXCEPT ![c] = <<[verts |-> verts', instances |-> instances']>>]
                ELSE first
    /\ repeat' = IF first[c] = <<>> THEN 0
                 ELSE IF scene # c THEN 2
                 ELSE IF repeat = 2 THEN 2 ELSE 1
    /\ UNCHANGED <<flame, cfg, quad, pipeline, aux, prev_aux, drawn>>

\* mesh.rs build_quad()
BuildQuad ==
    /\ quad' = build_quad
    /\ UNCHANGED <<flame, cfg, scene, verts, instances, locals, first, repeat,
                   pipeline, aux, prev_aux, drawn>>

\* PipelineDesc::build(.., aux, ..)
Build(a) ==
    /\ pipeline = <<>>
    /\ pipeline' = <<rendy_build_mesh(a)>>
    /\ aux' = a
    /\ UNCHANGED <<flame, cfg, scene, verts, instances, locals, first, repeat, quad,
                   prev_aux, drawn>>

\* Pipeline::prepare(.., aux): a new frame, *self = build_mesh(factory, aux)
Prepare(a) ==
    /\ pipeline # <<>>
    /\ pipeline' = <<rendy_build_mesh(a)>>
    /\ aux' = a
    /\ prev_aux' = aux
    /\ drawn' = <<>>
    /\ UNCHANGED <<flame, cfg, scene, verts, instances, locals, first, repeat, quad>>

\* Pipeline::draw(.., encoder, ..)
Draw ==
    /\ pipeline # <<>>
    /\ drawn' = <<[vertices  |-> <<0, pipeline[1].vertex_count>>,
                   instances |-> <<0, pipeline[1].instance_count>>]>>
    /\ UNCHANGED <<flame, cfg, scene, verts, instances, locals, first, repeat, quad,
                   pipeline, aux, prev_aux>>

Next ==
    \/ \E c \in Cursors : BuildMesh(c)
    \/ BuildQuad
    \/ \E a \in Cursors : Build(a)
    \/ \E a \in Cursors : Prepare(a)
    \/ Draw

Spec == Init /\ [][Next]_vars

\* The mesh.rs call site alone
NextMesh ==
    \/ \E c \in Cursors : BuildMesh(c)
    \/ BuildQuad

SpecMesh == Init /\ [][NextMesh]_vars

\* The rendy adapter alone
NextRendy ==
    \/ \E a \in Cursors : Build(a)
    \/ \E a \in Cursors : Prepare(a)
    \/ Draw

SpecRendy == Init /\ [][NextRendy]_vars

\* The two generation call sites side by side
NextBoth ==
    \/ \E c \in Cursors : BuildMesh(c)
    \/ \E a \in Cursors : Build(a)
    \/ \E a \in Cursors : Prepare(a)

SpecBoth == Init /\ [][NextBoth]_vars

\* ------------------------------------------------------------------------
\* Properties
\* ------------------------------------------------------------------------
Origin(c) == <<c[1] + ONE, c[2] + ONE>>
Built == scene # <<>>
ValidSplit == cfg.instance >= cfg.mesh /\ cfg.mesh >= 0

\* N(d): how often process_levels(d, visit) invokes visit on the root of cursor c
N(c, d) == Len(process_levels(root_state(c), d))

\* the order c0, c1, c2, c0, c2, c3 as indices into corners()
Winding == <<1, 2, 3, 1, 3, 4>>

F32Point(p) == <<AsF32(p[1]), AsF32(p[2])>>

\* C1: for a split with instance >= mesh >= 0, build_mesh returns exactly
\* 6 * N(mesh) vertices and exactly N(instance) instances.
C1_Counts ==
    (Built /\ ValidSplit) =>
        /\ Len(verts) = 6 * N(scene, cfg.mesh)
        /\ Len(instances) = N(scene, cfg.instance)

C1_Witness ==
    /\ Built /\ cfg.mesh >= 1 /\ cfg.instance > cfg.mesh
    /\ Len(verts) >= 12 /\ Len(instances) > Len(verts) \div 6

\* C2: every emitted Instance is row0 = (s0, s3, s6, 0), row1 = (s1, s4, s7, 0)
\* of the matrix s packed for its node; the fourth component is 0 and the
\* matrix's third row (s2, s5, s8) is not emitted.
C2_Packing ==
    /\ Len(instances) = Len(locals.m)
    /\ \A i \in 1..Len(instances) :
          LET s == locals.m[i] IN
          /\ instances[i].row0 = <<AsF32(s[0 + 1]), AsF32(s[3 + 1]), AsF32(s[6 + 1]), 0>>
          /\ instances[i].row1 = <<AsF32(s[1 + 1]), AsF32(s[4 + 1]), AsF32(s[7 + 1]), 0>>
          /\ DOMAIN instances[i] = {"row0", "row1"}

C2_Witness ==
    \E i \in 1..Len(instances) :
        LET s == locals.m[i] IN
        /\ AsF32(s[4]) # AsF32(s[2])
        /\ AsF32(s[7]) # 0
        /\ s[9] # 0
        /\ instances[i].row0[2] = AsF32(s[4])

\* C3: at mesh depth 0 the vertex output is exactly the 6 corners c0, c1, c2,
\* c0, c2, c3 of the root bounding rectangle, whatever the instance depth.
C3_DepthZero ==
    (Built /\ cfg.mesh = 0) =>
        /\ Len(verts) = 6
        /\ \A k \in 1..Len(verts) :
              verts[k].position =
                  F32Point(corners(flame[Origin(scene)].bounds)[Winding[k]])

C3_Witness ==
    /\ Built /\ cfg.mesh = 0 /\ cfg.instance > 0
    /\ flame[Origin(scene)].bounds # NdcRect
    /\ Len(verts) = 6

\* C4: build_mesh never returns buffers produced from a split with
\* instance < mesh (a malformed split is rejected, not processed).
C4_RejectsMalformed ==
    Built => cfg.instance >= cfg.mesh

QuadShape ==
    /\ Len(quad) = 6
    /\ \A k \in 1..Len(quad) :
          quad[k] = [position           |-> F32Point(corners(NdcRect)[Winding[k]]),
                     texture_coordinate |-> F32Point(corners(UnitRect)[Winding[k]])]

\* C6 (as stated): build_quad returns 6 vertices at corner indices 0, 1, 2,
\* 0, 2, 3 with the unit-rectangle UV of the same index, and that sequence
\* equals the vertex output of build_mesh at mesh depth 0.
C6_QuadIsDepthZeroMesh ==
    quad # <<>> =>
        /\ QuadShape
        /\ (Built /\ cfg.mesh = 0) => quad = verts

\* C6 (amended): build_quad returns 6 vertices at corner indices 0, 1, 2, 0,
\* 2, 3 of the fixed rectangle [-1,1]^2 with the unit-rectangle UV of the
\* same index; against build_mesh at mesh depth 0 the texture coordinates
\* always agree, and the whole sequence agrees when the root bounding
\* rectangle is [-1,1]^2.
C6_QuadAmended ==
    quad # <<>> =>
        /\ QuadShape
        /\ (Built /\ cfg.mesh = 0) =>
              /\ Len(verts) = Len(quad)
              /\ \A k \in 1..Len(quad) :
                    verts[k].texture_coordinate = quad[k].texture_coordinate
              /\ flame[Origin(scene)].bounds = NdcRect => quad = verts

C6_Witness ==
    /\ quad # <<>> /\ Built /\ cfg.mesh = 0
    /\ flame[Origin(scene)].bounds = NdcRect
    /\ quad = verts
    /\ quad[5].position # quad[6].position

\* C7: after any sequence of prepare calls the Pipeline is exactly the one
\* built from the last aux, its counts match its buffers, and a draw issues
\* 0..vertex_count by 0..instance_count of the current buffers.
C7_PipelineCurrent ==
    /\ pipeline # <<>> =>
          LET p == pipeline[1] IN
          /\ p = rendy_build_mesh(aux)
          /\ p.vertex_count = Len(p.vertex_buffer.data)
          /\ p.instance_count * 8 = Len(p.instance_buffer.data)
    /\ drawn # <<>> =>
          /\ pipeline # <<>>
          /\ drawn[1].vertices = <<0, Len(pipeline[1].vertex_buffer.data)>>
          /\ drawn[1].instances[1] = 0
          /\ drawn[1].instances[2] * 8 = Len(pipeline[1].instance_buffer.data)

C7_Witness ==
    /\ drawn # <<>> /\ prev_aux # <<>> /\ prev_aux # aux
    /\ flame[Origin(prev_aux)] # flame[Origin(aux)]
    /\ drawn[1].instances[2] > 1
    /\ drawn[1].vertices[2] > 6

\* C8: for the same cursor, when split_levels() is {BASE_LEVELS,
\* INSTANCE_LEVELS}, the rendy vertex data is the position sequence of the
\* mesh.rs vertices and the rendy instance floats are row0 ++ row1 of the
\* mesh.rs instances, in order.
C8_CallSitesAgree ==
    (/\ Built /\ pipeline # <<>> /\ aux = scene
     /\ split_levels = [mesh |-> BASE_LEVELS, instance |-> INSTANCE_LEVELS]) =>
        /\ pipeline[1].vertex_buffer.data = [k \in 1..Len(verts) |-> verts[k].position]
        /\ pipeline[1].instance_buffer.data =
              Flatten([i \in 1..Len(instances) |-> instances[i].row0 \o instances[i].row1])

C8_Witness ==
    /\ Built /\ pipeline # <<>> /\ aux = scene
    /\ split_levels = [mesh |-> BASE_LEVELS, instance |-> INSTANCE_LEVELS]
    /\ flame[Origin(scene)].bounds # NdcRect
    /\ Len(instances) >= 2 /\ Len(verts) >= 12
    /\ instances[1].row0 # instances[1].row1

\* C9: the letterbox transform L fits the root bounds into [-1,1]^2; every
\* instance packs L * node.mat (not node.mat * L) and every vertex position
\* is node.mat * corner with no L factor.
C9_Letterbox ==
    Built =>
        LET r      == root_state(scene)
            L      == letter_box(NdcRect, r.bounds)
            inodes == process_levels(r, cfg.instance)
            mnodes == process_levels(r, cfg.mesh)
            c      == corners(r.bounds)
        IN  /\ Len(instances) = Len(inodes)
            /\ \A i \in 1..Len(instances) :
                  LET s == MatMul(L, inodes[i].mat) IN
                  /\ locals.m[i] = s
                  /\ instances[i].row0 = <<AsF32(s[1]), AsF32(s[4]), AsF32(s[7]), 0>>
                  /\ instances[i].row1 = <<AsF32(s[2]), AsF32(s[5]), AsF32(s[8]), 0>>
            /\ \A k \in 1..Len(verts) :
                  verts[k].position =
                      F32Point(MatPoint(mnodes[((k - 1) \div 6) + 1].mat, c[Winding[((k - 1) % 6) + 1]]))

C9_Witness ==
    /\ Built
    /\ LET r      == root_state(scene)
           L      == letter_box(NdcRect, r.bounds)
           inodes == process_levels(r, cfg.instance)
       IN  /\ L # Identity
           /\ \E i \in 1..Len(inodes) :
                 /\ MatMul(L, inodes[i].mat) # MatMul(inodes[i].mat, L)
                 /\ instances[i].row0[3] # AsF32(MatMul(inodes[i].mat, L)[7])
           /\ \E k \in 1..Len(verts) :
                 verts[k].position # F32Point(MatPoint(L, verts[k].position))

\* C10: vertex k is the transform of node (k div 6) of the mesh pass applied
\* to template point (k mod 6) of c0, c1, c2, c0, c2, c3, with UV template
\* entry (k mod 6); positions and UVs have equal length, so the pairing
\* drops nothing.
C10_VertexLayout ==
    Built =>
        LET r      == root_state(scene)
            mnodes == process_levels(r, cfg.mesh)
            c      == corners(r.bounds)
            uv     == corners(UnitRect)
        IN  /\ Len(locals.positions) = Len(locals.uv_verts)
            /\ Len(verts) = Len(locals.positions)
            /\ Len(verts) = 6 * Len(mnodes)
            /\ \A k \in 1..Len(verts) :
                  LET node == ((k - 1) \div 6) + 1
                      t    == ((k - 1) % 6) + 1
                  IN  /\ verts[k].position = locals.positions[k]
                      /\ verts[k].position =
                             F32Point(MatPoint(mnodes[node].mat, c[Winding[t]]))
                      /\ verts[k].texture_coordinate = F32Point(uv[Winding[t]])

C10_Witness ==
    /\ Built /\ cfg.mesh >= 1
    /\ Len(verts) >= 12
    /\ verts[7].position # verts[1].position
    /\ verts[7].texture_coordinate = verts[1].texture_coordinate
    /\ verts[2].texture_coordinate # verts[1].texture_coordinate

====
